---- MODULE Spec2Model ----
(***************************************************************************)
(* Model of the HTTP datetime parser library (http_datetime_parser.c).     *)
(* An arcdate_t is a record; a C string is a sequence of one-character     *)
(* strings.  The state is one arcdate_t owned by a caller, created by      *)
(* generate_date and then mutated in place by the arithmetic operations.   *)
(***************************************************************************)
EXTENDS Integers, Sequences, FiniteSets, TLC

VARIABLES
    date,      \* the caller's arcdate_t
    prev,      \* the arcdate_t as it was when the last operation was called
    op,        \* name of the last operation called
    arg,       \* its integer argument
    input,     \* the httpDate string the arcdate_t was generated from
    budget,    \* number of calls the caller still makes
    test_pc    \* position inside the scripted sequence of test.c's main

vars == <<date, prev, op, arg, input, budget, test_pc>>

(***************************************************************************)
(* C integer arithmetic: / truncates toward zero, % takes the dividend's   *)
(* sign.                                                                   *)
(***************************************************************************)
CDiv(a, b) == IF a >= 0 THEN a \div b ELSE -((-a) \div b)

CMod(a, b) == a - b * CDiv(a, b)

(***************************************************************************)
(* The static tables.  C indexes them from 0, the sequences from 1.        *)
(***************************************************************************)
month_days == <<31, 28, 31, 30, 31, 30, 31, 31, 30, 31, 30, 31>>

weekday_names ==
    << <<"S","u","n">>, <<"M","o","n">>, <<"T","u","e">>, <<"W","e","d">>,
       <<"T","h","u">>, <<"F","r","i">>, <<"S","a","t">> >>

month_names ==
    << <<"J","a","n">>, <<"F","e","b">>, <<"M","a","r">>, <<"A","p","r">>,
       <<"M","a","y">>, <<"J","u","n">>, <<"J","u","l">>, <<"A","u","g">>,
       <<"S","e","p">>, <<"O","c","t">>, <<"N","o","v">>, <<"D","e","c">> >>

is_leap_year_div4(year) == CMod(year, 4) = 0

is_leap_year(year) ==
    IF CMod(year, 4) # 0 THEN FALSE
    ELSE IF CMod(year, 100) # 0 THEN TRUE
    ELSE IF CMod(year, 400) # 0 THEN FALSE
    ELSE TRUE

days_in_month(month, year) ==
    IF month = 2
    THEN (IF is_leap_year(year) THEN 29 ELSE 28)
    ELSE month_days[month]

(***************************************************************************)
(* add_years, add_months                                                   *)
(***************************************************************************)
add_years(d, years) ==
    LET y == d.year + years
    IN  IF d.month = 2 /\ d.day = 29 /\ ~is_leap_year(y)
        THEN [d EXCEPT !.year = y, !.day = 28]
        ELSE [d EXCEPT !.year = y]

add_months_no_minus_one(d, months) ==
    LET total_months == d.month + months
        years_change == CDiv(total_months, 12) - (IF total_months < 0 THEN 1 ELSE 0)
        m  == CMod(CMod(total_months, 12) + 12, 12) + 1
        d1 == add_years([d EXCEPT !.month = m], years_change)
        dim == days_in_month(d1.month, d1.year)
    IN  IF d1.day > dim THEN [d1 EXCEPT !.day = dim] ELSE d1

add_months(d, months) ==
    LET total_months == d.month + months - 1
        years_change == CDiv(total_months, 12) - (IF total_months < 0 THEN 1 ELSE 0)
        m  == CMod(CMod(total_months, 12) + 12, 12) + 1
        d1 == add_years([d EXCEPT !.month = m], years_change)
        dim == days_in_month(d1.month, d1.year)
    IN  IF d1.day > dim THEN [d1 EXCEPT !.day = dim] ELSE d1

(***************************************************************************)
(* add_days: the two while loops, one body per definition.                 *)
(***************************************************************************)
roll_forward_keep_weekday(d) ==
    LET day == d.day - days_in_month(d.month, d.year)
    IN  IF d.month + 1 > 12
        THEN [d EXCEPT !.day = day, !.month = 1, !.year = @ + 1]
        ELSE [d EXCEPT !.day = day, !.month = @ + 1]

roll_forward(d) ==
    LET day == d.day - days_in_month(d.month, d.year)
        wd  == CMod(d.weekday + 1, 7)
    IN  IF d.month + 1 > 12
        THEN [d EXCEPT !.day = day, !.month = 1, !.year = @ + 1, !.weekday = wd]
        ELSE [d EXCEPT !.day = day, !.month = @ + 1, !.weekday = wd]

roll_backward(d) ==
    LET m  == IF d.month - 1 < 1 THEN 12 ELSE d.month - 1
        y  == IF d.month - 1 < 1 THEN d.year - 1 ELSE d.year
    IN  [d EXCEPT !.month = m, !.year = y,
                  !.day = @ + days_in_month(m, y),
                  !.weekday = CMod(@ + 6, 7)]

RECURSIVE while_forward(_)
while_forward(d) ==
    IF d.day > days_in_month(d.month, d.year)
    THEN while_forward(roll_forward(d))
    ELSE d

RECURSIVE while_backward(_)
while_backward(d) ==
    IF d.day < 1 THEN while_backward(roll_backward(d)) ELSE d

add_days(d, days) ==
    while_backward(while_forward([d EXCEPT !.day = @ + days]))

(***************************************************************************)
(* add_hours, add_minutes, convert                                         *)
(***************************************************************************)
add_hours_raw_mod(d, hours) ==
    LET total_hours == d.hour + hours
        days_change == CDiv(total_hours, 24) - (IF total_hours < 0 THEN 1 ELSE 0)
    IN  add_days([d EXCEPT !.hour = CMod(total_hours, 24)], days_change)

add_hours(d, hours) ==
    LET total_hours == d.hour + hours
        days_change == CDiv(total_hours, 24) - (IF total_hours < 0 THEN 1 ELSE 0)
    IN  add_days([d EXCEPT !.hour = CMod(CMod(total_hours, 24) + 24, 24)],
                 days_change)

add_minutes_truncating(d, minutes) ==
    LET total_minutes == d.minute + minutes
        hours_change  == CDiv(total_minutes, 60)
    IN  add_hours([d EXCEPT !.minute = CMod(CMod(total_minutes, 60) + 60, 60)],
                  hours_change)

add_minutes(d, minutes) ==
    LET total_minutes == d.minute + minutes
        hours_change  == CDiv(total_minutes, 60)
                            - (IF total_minutes < 0 THEN 1 ELSE 0)
    IN  add_hours([d EXCEPT !.minute = CMod(CMod(total_minutes, 60) + 60, 60)],
                  hours_change)

convert(d, new_gmt_offset) ==
    LET diff == new_gmt_offset - d.gmt_offset
    IN  [add_hours(d, diff) EXCEPT !.gmt_offset = new_gmt_offset]

(***************************************************************************)
(* sscanf(httpDate, "%3s, %d %3s %d %d:%d:%d", ...): each conversion skips *)
(* leading white space; %3s takes at most three non-space characters, %d   *)
(* an optional sign and decimal digits; a literal must match the input.    *)
(***************************************************************************)
digit_chars == <<"0", "1", "2", "3", "4", "5", "6", "7", "8", "9">>

digit_value(c) == (CHOOSE i \in 1..10 : digit_chars[i] = c) - 1

is_digit(c) == \E i \in 1..10 : digit_chars[i] = c

RECURSIVE skip_space(_, _)
skip_space(s, i) ==
    IF i <= Len(s) /\ s[i] = " " THEN skip_space(s, i + 1) ELSE i

RECURSIVE word_end(_, _, _)
word_end(s, i, w) ==
    IF w > 0 /\ i <= Len(s) /\ s[i] # " " THEN word_end(s, i + 1, w - 1) ELSE i

scan_s(s, i, w) ==
    LET b == skip_space(s, i)
        e == word_end(s, b, w)
    IN  [val |-> SubSeq(s, b, e - 1), next |-> e, ok |-> e > b]

RECURSIVE scan_digits(_, _, _)
scan_digits(s, i, acc) ==
    IF i <= Len(s) /\ is_digit(s[i])
    THEN scan_digits(s, i + 1, 10 * acc + digit_value(s[i]))
    ELSE [val |-> acc, next |-> i]

scan_d(s, i) ==
    LET b      == skip_space(s, i)
        signed == b <= Len(s) /\ (s[b] = "-" \/ s[b] = "+")
        first  == IF signed THEN b + 1 ELSE b
        r      == scan_digits(s, first, 0)
    IN  [val  |-> IF signed /\ s[b] = "-" THEN -r.val ELSE r.val,
         next |-> r.next,
         ok   |-> r.next > first]

scan_literal(s, i, c) ==
    [next |-> i + 1, ok |-> i <= Len(s) /\ s[i] = c]

sscanf_http_date(s) ==
    LET weekday == scan_s(s, 1, 3)
        comma   == scan_literal(s, weekday.next, ",")
        day     == scan_d(s, comma.next)
        month   == scan_s(s, day.next, 3)
        year    == scan_d(s, month.next)
        hour    == scan_d(s, year.next)
        colon1  == scan_literal(s, hour.next, ":")
        minute  == scan_d(s, colon1.next)
        colon2  == scan_literal(s, minute.next, ":")
        second  == scan_d(s, colon2.next)
    IN  [weekday |-> weekday.val, day |-> day.val, month |-> month.val,
         year |-> year.val, hour |-> hour.val, minute |-> minute.val,
         second |-> second.val,
         assigned_all |-> /\ weekday.ok /\ comma.ok /\ day.ok /\ month.ok
                          /\ year.ok /\ hour.ok /\ colon1.ok /\ minute.ok
                          /\ colon2.ok /\ second.ok]

parse_month(str) ==
    IF \E i \in 1..12 : month_names[i] = str
    THEN CHOOSE i \in 1..12 : month_names[i] = str
    ELSE 1

parse_weekday(str) ==
    IF \E i \in 1..7 : weekday_names[i] = str
    THEN (CHOOSE i \in 1..7 : weekday_names[i] = str) - 1
    ELSE 0

\* The arcdate_t as filled in from the string, before the offset is applied.
parsed_date(httpDate, gmt_offset) ==
    LET f == sscanf_http_date(httpDate)
    IN  [year |-> f.year, month |-> parse_month(f.month), day |-> f.day,
         hour |-> f.hour, minute |-> f.minute, second |-> f.second,
         weekday |-> parse_weekday(f.weekday), gmt_offset |-> gmt_offset]

generate_date(httpDate, gmt_offset) ==
    add_hours(parsed_date(httpDate, gmt_offset), gmt_offset)

(***************************************************************************)
(* snprintf(buffer, 100, "%s, %02d %s %04d %02d:%02d:%02d GMT%+d", ...)    *)
(***************************************************************************)
RECURSIVE decimal(_)
decimal(n) ==
    IF n < 10 THEN <<digit_chars[n + 1]>>
    ELSE decimal(n \div 10) \o <<digit_chars[(n % 10) + 1]>>

RECURSIVE zero_pad(_, _)
zero_pad(s, w) == IF Len(s) >= w THEN s ELSE zero_pad(<<"0">> \o s, w)

\* %0<w>d
fmt_0d(n, w) ==
    IF n < 0 THEN <<"-">> \o zero_pad(decimal(-n), w - 1)
    ELSE zero_pad(decimal(n), w)

\* %d
fmt_d(n) == IF n < 0 THEN <<"-">> \o decimal(-n) ELSE decimal(n)

\* %+d
fmt_plus_d(n) == IF n < 0 THEN <<"-">> \o decimal(-n) ELSE <<"+">> \o decimal(n)

truncate_to_buffer(s) == IF Len(s) > 99 THEN SubSeq(s, 1, 99) ELSE s

to_date_string_unpadded(d) ==
    truncate_to_buffer(
        weekday_names[d.weekday + 1] \o <<",", " ">> \o fmt_d(d.day)
        \o <<" ">> \o month_names[d.month] \o <<" ">> \o fmt_d(d.year)
        \o <<" ">> \o fmt_d(d.hour) \o <<":">> \o fmt_d(d.minute)
        \o <<":">> \o fmt_d(d.second)
        \o <<" ", "G", "M", "T">> \o fmt_plus_d(d.gmt_offset))

to_date_string(d) ==
    truncate_to_buffer(
        weekday_names[d.weekday + 1] \o <<",", " ">> \o fmt_0d(d.day, 2)
        \o <<" ">> \o month_names[d.month] \o <<" ">> \o fmt_0d(d.year, 4)
        \o <<" ">> \o fmt_0d(d.hour, 2) \o <<":">> \o fmt_0d(d.minute, 2)
        \o <<":">> \o fmt_0d(d.second, 2)
        \o <<" ", "G", "M", "T">> \o fmt_plus_d(d.gmt_offset))

(***************************************************************************)
(* Inputs.  An HTTP-Date string has the layout                             *)
(* "<Wkd>, <DD> <Mon> <YYYY> <HH>:<MM>:<SS> GMT".                          *)
(***************************************************************************)
http_date(wkd, dd, mon, yyyy, hh, mm, ss) ==
    wkd \o <<",", " ">> \o dd \o <<" ">> \o mon \o <<" ">> \o yyyy \o <<" ">>
    \o hh \o <<":">> \o mm \o <<":">> \o ss \o <<" ", "G", "M", "T">>

\* The string test.c parses: "Wed, 21 Oct 2015 07:28:00 GMT".
TestDate ==
    http_date(<<"W","e","d">>, <<"2","1">>, <<"O","c","t">>, <<"2","0","1","5">>,
              <<"0","7">>, <<"2","8">>, <<"0","0">>)

\* Strings a caller parses and then works on through a sequence of calls.
HttpDates ==
    { TestDate,
      http_date(<<"M","o","n">>, <<"2","9">>, <<"F","e","b">>, <<"2","0","1","6">>,
                <<"0","0">>, <<"0","0">>, <<"0","0">>),
      http_date(<<"T","h","u">>, <<"3","1">>, <<"D","e","c">>, <<"2","0","1","5">>,
                <<"2","3">>, <<"5","9">>, <<"5","9">>),
      http_date(<<"S","u","n">>, <<"3","1">>, <<"J","a","n">>, <<"2","0","1","6">>,
                <<"1","2">>, <<"0","0">>, <<"3","0">>) }

Offsets == {-12, 0, 3}

\* Arguments of the calls in a sequence.
SeqOffsets == {-12, 0, 5, 12}
SeqMinutes == {-90, -60, 60}
SeqHours   == {-25, -24, 1}
SeqDays    == {-366, -1, 2, 31}
SeqMonths  == {-13, -12, 1}
SeqYears   == {-1, 4}

\* Strings for single calls: the fields range over boundary values, some of
\* them outside the calendar ("31 Feb", "00", hour "24", minute "75").
ArithWkd    == { <<"S","u","n">>, <<"S","a","t">> }
ArithDD     == { <<"0","0">>, <<"0","1">>, <<"2","8">>, <<"2","9">>, <<"3","1">> }
ArithMon    == { month_names[i] : i \in 1..12 }
ArithYYYY   == { <<"1","9","0","0">>, <<"2","0","0","0">>,
                 <<"2","0","1","5">>, <<"2","0","1","6">> }
ArithHH     == { <<"0","0">>, <<"2","3">>, <<"2","4">> }
ArithMM     == { <<"0","0">>, <<"5","9">>, <<"7","5">> }
ArithSS     == { <<"0","9">> }
ArithDates ==
    { http_date(w, dd, mon, yyyy, hh, mm, ss) :
        w \in ArithWkd, dd \in ArithDD, mon \in ArithMon, yyyy \in ArithYYYY,
        hh \in ArithHH, mm \in ArithMM, ss \in ArithSS }

ArithOffsets == {0, 3}

ArithNewOffsets == {-12, 0, 5}
ArithMinutes == {-120, -61, -60, -1, 0, 1, 60, 61}
ArithHours   == {-48, -25, -24, -1, 0, 1, 24, 25}
ArithDays    == {-366, -365, -60, -31, -1, 0, 1, 29, 31, 60, 366}
ArithMonths  == {-25, -24, -13, -12, -1, 0, 1, 11, 12, 13}
ArithYears   == {-4, -1, 0, 1, 4}

\* Number of calls a caller makes on one arcdate_t in a sequence.
MaxOps == 3

(***************************************************************************)
(* The caller: test.c's main creates the arcdate_t with generate_date and  *)
(* then calls the operations on it.  test_pc follows main's own sequence   *)
(* generate_date(.., 3); convert(5); add_days(2); add_minutes(-90).        *)
(***************************************************************************)
script_next(pc, name, n) ==
    IF pc = "parsed" /\ name = "convert" /\ n = 5 THEN "converted"
    ELSE IF pc = "converted" /\ name = "add_days" /\ n = 2 THEN "days_added"
    ELSE IF pc = "days_added" /\ name = "add_minutes" /\ n = -90
         THEN "minutes_subtracted"
    ELSE "off_script"

Generate(s, off, calls) ==
    /\ sscanf_http_date(s).assigned_all
    /\ input = s
    /\ prev = parsed_date(s, off)
    /\ date = generate_date(s, off)
    /\ op = "generate_date"
    /\ arg = off
    /\ budget = calls
    /\ test_pc = IF s = TestDate /\ off = 3 THEN "parsed" ELSE "off_script"

Call(name, n, result) ==
    /\ budget > 0
    /\ prev' = date
    /\ date' = result
    /\ op' = name
    /\ arg' = n
    /\ budget' = budget - 1
    /\ test_pc' = script_next(test_pc, name, n)
    /\ UNCHANGED input

Convert(n)    == Call("convert", n, convert(date, n))
AddMinutes(n) == Call("add_minutes", n, add_minutes(date, n))
AddHours(n)   == Call("add_hours", n, add_hours(date, n))
AddDays(n)    == Call("add_days", n, add_days(date, n))
AddMonths(n)  == Call("add_months", n, add_months(date, n))
AddYears(n)   == Call("add_years", n, add_years(date, n))

Init == \E s \in HttpDates, off \in Offsets : Generate(s, off, MaxOps)

Next ==
    \/ \E n \in SeqOffsets : Convert(n)
    \/ \E n \in SeqMinutes : AddMinutes(n)
    \/ \E n \in SeqHours : AddHours(n)
    \/ \E n \in SeqDays : AddDays(n)
    \/ \E n \in SeqMonths : AddMonths(n)
    \/ \E n \in SeqYears : AddYears(n)

Spec == Init /\ [][Next]_vars

\* One call with a wide range of arguments on a wide range of timestamps.
InitArith == \E s \in ArithDates, off \in ArithOffsets : Generate(s, off, 1)

NextArith ==
    \/ \E n \in ArithNewOffsets : Convert(n)
    \/ \E n \in ArithMinutes : AddMinutes(n)
    \/ \E n \in ArithHours : AddHours(n)
    \/ \E n \in ArithDays : AddDays(n)
    \/ \E n \in ArithMonths : AddMonths(n)
    \/ \E n \in ArithYears : AddYears(n)

SpecArith == InitArith /\ [][NextArith]_vars

(***************************************************************************)
(* Reference calendar, independent of the library's tables: the day number *)
(* of a proleptic Gregorian date counted from 0000-03-01, and its inverse. *)
(***************************************************************************)
DayNumber(y, m, d) ==
    LET y2  == IF m <= 2 THEN y - 1 ELSE y
        era == y2 \div 400
        yoe == y2 - era * 400
        mp  == IF m > 2 THEN m - 3 ELSE m + 9
        doy == (153 * mp + 2) \div 5 + d - 1
        doe == yoe * 365 + yoe \div 4 - yoe \div 100 + doy
    IN  era * 146097 + doe

CivilFromDays(z) ==
    LET era == z \div 146097
        doe == z - era * 146097
        yoe == (doe - doe \div 1460 + doe \div 36524 - doe \div 146096) \div 365
        doy == doe - (365 * yoe + yoe \div 4 - yoe \div 100)
        mp  == (5 * doy + 2) \div 153
        d   == doy - (153 * mp + 2) \div 5 + 1
        m   == IF mp < 10 THEN mp + 3 ELSE mp - 9
        y   == yoe + era * 400 + (IF m <= 2 THEN 1 ELSE 0)
    IN  <<y, m, d>>

\* 0 = Sunday; 0000-03-01 is a Wednesday.
GregorianWeekday(y, m, d) == (DayNumber(y, m, d) + 3) % 7

HasTrueWeekday(d) == d.weekday = GregorianWeekday(d.year, d.month, d.day)

MonthIndex(d) == d.year * 12 + (d.month - 1)

Min(a, b) == IF a < b THEN a ELSE b

\* The range invariants of an arcdate_t.
InRange(d) ==
    /\ 1 <= d.month /\ d.month <= 12
    /\ 1 <= d.day /\ d.day <= days_in_month(d.month, d.year)
    /\ 0 <= d.hour /\ d.hour <= 23
    /\ 0 <= d.minute /\ d.minute <= 59
    /\ 0 <= d.weekday /\ d.weekday <= 6

SameWallClock(a, b) ==
    /\ a.year = b.year /\ a.month = b.month /\ a.day = b.day
    /\ a.hour = b.hour /\ a.minute = b.minute /\ a.second = b.second
    /\ a.gmt_offset = b.gmt_offset

Mutations ==
    {"convert", "add_minutes", "add_hours", "add_days", "add_months", "add_years"}

\* The strings test.c documents as its output.
\* "Wed, 21 Oct 2015 10:28:00 GMT+3"
DocParsed ==
    <<"W","e","d",","," ","2","1"," ","O","c",
      "t"," ","2","0","1","5"," ","1","0",":",
      "2","8",":","0","0"," ","G","M","T","+",
      "3">>

\* "Wed, 21 Oct 2015 12:28:00 GMT+5"
DocConverted ==
    <<"W","e","d",","," ","2","1"," ","O","c",
      "t"," ","2","0","1","5"," ","1","2",":",
      "2","8",":","0","0"," ","G","M","T","+",
      "5">>

\* "Wed, 23 Oct 2015 12:28:00 GMT+5"
DocDaysAdded ==
    <<"W","e","d",","," ","2","3"," ","O","c",
      "t"," ","2","0","1","5"," ","1","2",":",
      "2","8",":","0","0"," ","G","M","T","+",
      "5">>

\* "Wed, 23 Oct 2015 10:58:00 GMT+5"
DocMinutesSubtracted ==
    <<"W","e","d",","," ","2","3"," ","O","c",
      "t"," ","2","0","1","5"," ","1","0",":",
      "5","8",":","0","0"," ","G","M","T","+",
      "5">>

(***************************************************************************)
(* C1.  The documented end-to-end sequence produces exactly the documented *)
(* strings: after generate_date("Wed, 21 Oct 2015 07:28:00 GMT", 3), then  *)
(* convert(5), then add_days(2), then add_minutes(-90), to_date_string     *)
(* yields the four strings of test.c's recorded output.                    *)
(***************************************************************************)
C1_EndToEnd ==
    /\ test_pc = "parsed" => to_date_string(date) = DocParsed
    /\ test_pc = "converted" => to_date_string(date) = DocConverted
    /\ test_pc = "days_added" => to_date_string(date) = DocDaysAdded
    /\ test_pc = "minutes_subtracted"
           => to_date_string(date) = DocMinutesSubtracted

C1_ScriptFinished ==
    /\ test_pc = "minutes_subtracted"
    /\ op = "add_minutes" /\ arg = -90
    /\ to_date_string(date) = DocMinutesSubtracted

(***************************************************************************)
(* C2.  Starting from a timestamp within the range invariants, the range   *)
(* invariants (month 1..12, day 1..days_in_month, hour 0..23, minute       *)
(* 0..59, weekday 0..6) hold after every call, in any sequence, of         *)
(* add_minutes, add_hours, add_days, add_months, add_years and convert.    *)
(***************************************************************************)
C2_RangeInvariants == InRange(date)

C2_BorrowedAcrossYear ==
    /\ budget = 0
    /\ op \in {"add_hours", "add_minutes", "convert"} /\ arg < 0
    /\ date.year = prev.year - 1 /\ date.month = 12 /\ date.hour > prev.hour
    /\ InRange(date)

(***************************************************************************)
(* C3.  After every mutation applied to a timestamp whose weekday is the   *)
(* true Gregorian weekday of (year, month, day), the weekday is still the  *)
(* true Gregorian weekday of the resulting (year, month, day).             *)
(***************************************************************************)
C3_WeekdayStaysTrue ==
    (op \in Mutations /\ InRange(prev) /\ HasTrueWeekday(prev))
        => HasTrueWeekday(date)

(***************************************************************************)
(* C4.  add_hours(ts, n) sets hour to the floor modulo (hour + n) mod 24   *)
(* and applies a day delta of exactly floor((hour + n) / 24) through       *)
(* add_days; add_minutes(ts, n) sets minute to (minute + n) mod 60 and     *)
(* applies an hour delta of exactly floor((minute + n) / 60) through       *)
(* add_hours; negative exact multiples included.                           *)
(***************************************************************************)
C4_FloorCarry ==
    /\ (op = "add_hours" /\ InRange(prev))
          => date = add_days([prev EXCEPT !.hour = (prev.hour + arg) % 24],
                             (prev.hour + arg) \div 24)
    /\ (op = "add_minutes" /\ InRange(prev))
          => date = add_hours([prev EXCEPT !.minute = (prev.minute + arg) % 60],
                              (prev.minute + arg) \div 60)

(***************************************************************************)
(* C5.  add_months(ts, n) yields the month and year whose absolute month   *)
(* index year*12 + (month-1) is exactly n greater than before, and sets    *)
(* day to min(old day, days_in_month(new month, new year)).                *)
(***************************************************************************)
C5_AddMonthsExact ==
    (op = "add_months" /\ InRange(prev))
        => /\ MonthIndex(date) = MonthIndex(prev) + arg
           /\ date.day = Min(prev.day, days_in_month(date.month, date.year))

(***************************************************************************)
(* C6.  convert(ts, X) followed by convert(ts, Y) leaves the same year,    *)
(* month, day, hour, minute, second and gmt_offset as a single             *)
(* convert(ts, Y) applied to the original timestamp.                       *)
(***************************************************************************)
C6_ConvertComposes ==
    [][(op = "convert" /\ op' = "convert" /\ InRange(prev))
          => SameWallClock(date', convert(prev, arg'))]_vars

(***************************************************************************)
(* C7.  As claimed: for a well-formed HTTP-Date string s parsed with       *)
(* offset 0, to_date_string(generate_date(s, 0)) reproduces s.             *)
(***************************************************************************)
C7_RoundTripExact ==
    (op = "generate_date" /\ arg = 0) => to_date_string(date) = input

\* The day and hour fields of the parsed string lie within the calendar.
ParsedWithinCalendar ==
    /\ 1 <= prev.day /\ prev.day <= days_in_month(prev.month, prev.year)
    /\ 0 <= prev.hour /\ prev.hour <= 23

(***************************************************************************)
(* C7, amended.  For a well-formed HTTP-Date string s whose day is within  *)
(* 1..days_in_month(month, year) and whose hour is within 0..23, parsed    *)
(* with offset 0, to_date_string(generate_date(s, 0)) is s followed by the *)
(* offset suffix "+0".                                                     *)
(***************************************************************************)
C7_RoundTripWithOffsetSuffix ==
    (op = "generate_date" /\ arg = 0 /\ ParsedWithinCalendar)
        => to_date_string(date) = input \o <<"+", "0">>

C7_LeapDayRoundTrip ==
    /\ op = "generate_date" /\ arg = 0 /\ ParsedWithinCalendar
    /\ prev.year = 2000 /\ prev.month = 2 /\ prev.day = 29 /\ prev.minute = 75
    /\ to_date_string(date) = input \o <<"+", "0">>

(***************************************************************************)
(* C8.  For every timestamp within the range invariants, add_minutes,      *)
(* add_hours, add_days, add_months and add_years with a delta of 0 leave   *)
(* all eight fields unchanged.                                             *)
(***************************************************************************)
C8_ZeroDeltaIdentity ==
    (/\ op \in {"add_minutes", "add_hours", "add_days", "add_months", "add_years"}
     /\ arg = 0
     /\ InRange(prev))
        => date = prev

C8_ZeroMonthsOnLeapDay ==
    /\ op = "add_months" /\ arg = 0 /\ InRange(prev)
    /\ prev.month = 2 /\ prev.day = 29
    /\ date = prev

(***************************************************************************)
(* C9.  add_days(ts, n) changes weekday by exactly the number of month     *)
(* boundaries crossed, not by n: +1 mod 7 per forward month rollover, -1   *)
(* mod 7 per backward month borrow, and not at all when the resulting date *)
(* stays in the same month.                                                *)
(***************************************************************************)
C9_WeekdayPerMonthBoundary ==
    (op = "add_days" /\ InRange(prev))
        => date.weekday
             = (prev.weekday + MonthIndex(date) - MonthIndex(prev)) % 7

C9_TwoMonthsForwardWraps ==
    /\ op = "add_days" /\ arg = 60 /\ InRange(prev)
    /\ MonthIndex(date) = MonthIndex(prev) + 2
    /\ prev.weekday = 6 /\ date.weekday = 1

(***************************************************************************)
(* C10.  add_days(ts, n) ends with (year, month, day) equal to the         *)
(* Gregorian calendar date exactly n days after the original date, and     *)
(* leaves hour, minute, second and gmt_offset unchanged.                   *)
(***************************************************************************)
C10_AddDaysGregorian ==
    (op = "add_days" /\ InRange(prev))
        => /\ <<date.year, date.month, date.day>>
                = CivilFromDays(DayNumber(prev.year, prev.month, prev.day) + arg)
           /\ date.hour = prev.hour /\ date.minute = prev.minute
           /\ date.second = prev.second /\ date.gmt_offset = prev.gmt_offset

C10_YearBackAcrossCenturyFebruary ==
    /\ op = "add_days" /\ arg = -366 /\ InRange(prev)
    /\ prev.year = 1900 /\ prev.month = 12 /\ prev.day = 31
    /\ date.year = 1899 /\ date.month = 12 /\ date.day = 30

====
